---- MODULE Spec2Model ----
(***************************************************************************)
(* Model of nvidia-fan-control (src/nfc.go): the temperature -> fan speed  *)
(* function getFanSpeedForTemperature and the monitoring loop that applies *)
(* it to every fan of every device on each tick of the ticker.             *)
(***************************************************************************)
EXTENDS Integers, Sequences, FiniteSets, TLC

VARIABLES
    ranges,     \* config.TemperatureRanges
    FanCounts,  \* FanCounts[i], i in 0..count-1
    FanSpeeds,  \* FanSpeeds[i][fanIdx]
    i,          \* device index of the sweep; count = waiting on ticker.C
    calls,      \* NVML calls made while visiting the last device of the sweep
    temps,      \* temps[d]: what the latest read of device d gave
    failed,     \* failed[d]: fans of d whose write failed at its latest visit
    repeated,   \* the visit read what the preceding tick read of the device
    call,       \* the evaluations of getFanSpeedForTemperature of the visit
    trace,      \* device 0 over successive ticks in which every call succeeds
    updatedFans,\* updatedFans of the visit: the fans of the summary log line
    main,       \* where main is, and what it holds of the configuration
    active_band,\* active_band[d][f]: the band last matched at the fan's speed
    written     \* written[d][f]: the speed the fan's hardware was last set to

vars == <<ranges, FanCounts, FanSpeeds, i, calls, temps, failed, repeated, call,
          trace, updatedFans, main, active_band, written>>

----------------------------------------------------------------------------
(* Bounds of the model. *)

\* Largest temperature of the generated tables; readings go one above.
MaxTemp == 3

\* Largest number of fans of one device.
MaxFans == 2

\* Largest number of devices DeviceGetCount reports at startup.
MaxDevices == 2

\* time_to_update is a float64: the model counts it in steps of 1/Resolution
\* of a second, up to MaxSeconds seconds.
Resolution == 2
MaxSeconds == 3

----------------------------------------------------------------------------
(* type TemperatureRange, nfc.go:17-22 *)

TemperatureRange(mn, mx, sp, hy) ==
    [MinTemperature |-> mn, MaxTemperature |-> mx, FanSpeed |-> sp, Hysteresis |-> hy]

\* The zero value of `var prevRange TemperatureRange` (nfc.go:43).
ZeroRange == TemperatureRange(0, 0, 0, 0)

\* nfc.go:34 with the bounds the other way round: min included, max not.
InRangeHalfOpenBelow(temp, r) ==
    temp >= r.MinTemperature /\ temp < r.MaxTemperature

\* nfc.go:34: the minimum is excluded, the maximum included.
InRange(temp, r) ==
    temp > r.MinTemperature /\ temp <= r.MaxTemperature

\* nfc.go:33-38: index of the band the loop breaks on, 0 when it runs out.
RECURSIVE MatchFrom(_, _, _)
MatchFrom(temp, rs, k) ==
    IF k > Len(rs) THEN 0
    ELSE IF InRange(temp, rs[k]) THEN k
    ELSE MatchFrom(temp, rs, k + 1)

MatchIndex(temp, rs) == MatchFrom(temp, rs, 1)

\* nfc.go:32-38
idealSpeedOf(temp, prevSpeed, rs) ==
    LET k == MatchIndex(temp, rs)
    IN  IF k = 0 THEN prevSpeed ELSE rs[k].FanSpeed

\* nfc.go:43-49: the first band whose FanSpeed is prevSpeed, else the zero value.
RECURSIVE PrevFrom(_, _, _)
PrevFrom(prevSpeed, rs, k) ==
    IF k > Len(rs) THEN ZeroRange
    ELSE IF rs[k].FanSpeed = prevSpeed THEN rs[k]
    ELSE PrevFrom(prevSpeed, rs, k + 1)

prevRangeOf(prevSpeed, rs) == PrevFrom(prevSpeed, rs, 1)

\* Variants of nfc.go:31-59 with one line changed.
\* nfc.go:53 with < for <=.
getFanSpeedStrictThreshold(temp, prevSpeed, rs) ==
    LET idealSpeed == idealSpeedOf(temp, prevSpeed, rs)
        prevRange == prevRangeOf(prevSpeed, rs)
    IN  IF idealSpeed > prevSpeed THEN idealSpeed
        ELSE IF idealSpeed < prevSpeed THEN
            IF prevRange.FanSpeed = 0 /\ prevRange.MinTemperature = 0
                  /\ prevRange.Hysteresis = 0
            THEN idealSpeed
            ELSE IF temp < prevRange.MinTemperature - prevRange.Hysteresis
            THEN idealSpeed
            ELSE prevSpeed
        ELSE prevSpeed

\* nfc.go:39-42 with the hysteresis test applied to every change of speed.
getFanSpeedHysteresisBothWays(temp, prevSpeed, rs) ==
    LET idealSpeed == idealSpeedOf(temp, prevSpeed, rs)
        prevRange == prevRangeOf(prevSpeed, rs)
    IN  IF idealSpeed # prevSpeed THEN
            IF prevRange.FanSpeed = 0 /\ prevRange.MinTemperature = 0
                  /\ prevRange.Hysteresis = 0
            THEN idealSpeed
            ELSE IF temp <= prevRange.MinTemperature - prevRange.Hysteresis
            THEN idealSpeed
            ELSE prevSpeed
        ELSE prevSpeed

\* nfc.go:44-49 with the threshold taken from the band the reading resolves to.
getFanSpeedCandidateThreshold(temp, prevSpeed, rs) ==
    LET idealSpeed == idealSpeedOf(temp, prevSpeed, rs)
        k == MatchIndex(temp, rs)
        prevRange == IF k = 0 THEN ZeroRange ELSE rs[k]
    IN  IF idealSpeed > prevSpeed THEN idealSpeed
        ELSE IF idealSpeed < prevSpeed THEN
            IF prevRange.FanSpeed = 0 /\ prevRange.MinTemperature = 0
                  /\ prevRange.Hysteresis = 0
            THEN idealSpeed
            ELSE IF temp <= prevRange.MinTemperature - prevRange.Hysteresis
            THEN idealSpeed
            ELSE prevSpeed
        ELSE prevSpeed

\* nfc.go:50 without the test of FanSpeed: a band with min_temperature 0 and
\* hysteresis 0 counts as no band.
getFanSpeedZeroTestWithoutSpeed(temp, prevSpeed, rs) ==
    LET idealSpeed == idealSpeedOf(temp, prevSpeed, rs)
        prevRange == prevRangeOf(prevSpeed, rs)
    IN  IF idealSpeed > prevSpeed THEN idealSpeed
        ELSE IF idealSpeed < prevSpeed THEN
            IF prevRange.MinTemperature = 0 /\ prevRange.Hysteresis = 0
            THEN idealSpeed
            ELSE IF temp <= prevRange.MinTemperature - prevRange.Hysteresis
            THEN idealSpeed
            ELSE prevSpeed
        ELSE prevSpeed

\* nfc.go:31-59
getFanSpeedForTemperature(temp, prevSpeed, rs) ==
    LET idealSpeed == idealSpeedOf(temp, prevSpeed, rs)
        prevRange == prevRangeOf(prevSpeed, rs)
    IN  IF idealSpeed > prevSpeed THEN idealSpeed
        ELSE IF idealSpeed < prevSpeed THEN
            IF prevRange.FanSpeed = 0 /\ prevRange.MinTemperature = 0
                  /\ prevRange.Hysteresis = 0
            THEN idealSpeed
            ELSE IF temp <= prevRange.MinTemperature - prevRange.Hysteresis
            THEN idealSpeed
            ELSE prevSpeed
        ELSE prevSpeed


----------------------------------------------------------------------------
(* Configurations: config.json as loadConfig (nfc.go:71-84) unmarshals it. *)

\* README "Configuration", the first three bands: the table of the scenarios.
ScenarioTable ==
    << TemperatureRange(-999, 50, 0, 0),
       TemperatureRange(50, 60, 40, 8),
       TemperatureRange(60, 65, 55, 2) >>

\* README "Configuration", the whole example table.
ReadmeTable ==
    ScenarioTable \o
    << TemperatureRange(65, 70, 70, 2),
       TemperatureRange(70, 75, 80, 2),
       TemperatureRange(75, 80, 85, 2),
       TemperatureRange(80, 85, 90, 2),
       TemperatureRange(85, 95, 95, 2),
       TemperatureRange(95, 999, 100, 0) >>

DocTables == {ScenarioTable, ReadmeTable}

\* Readings and recorded speeds tried against the documented tables.
DocTemps == 40 .. 71
DocSpeeds == {0, 30, 40, 55, 70}

\* Generated tables: every table of at most two bands over small values.
\* fan_speed and hysteresis are non-negative (spec.md, section 3).
SmallTemps == 0 .. MaxTemp
SmallSpeeds == {0, 1, 2}
SmallHysts == {0, 1}

SmallBands ==
    { TemperatureRange(mn, mx, sp, hy) :
        mn \in SmallTemps, mx \in SmallTemps, sp \in SmallSpeeds, hy \in SmallHysts }

SmallTables ==
    {<< >>} \cup { <<a>> : a \in SmallBands }
            \cup { <<a, b>> : a \in SmallBands, b \in SmallBands }

Tables == DocTables \cup SmallTables

\* The inputs tried with table rs: int(temp) of an unsigned reading, and a
\* recorded speed.
TempsFor(rs) == IF rs \in DocTables THEN DocTemps ELSE 0 .. (MaxTemp + 1)
SpeedsFor(rs) == IF rs \in DocTables THEN DocSpeeds ELSE SmallSpeeds

\* spec.md section 8, the readings of end-to-end scenarios A and B.
ScenarioA == <<49, 51, 58, 52>>
ScenarioB == <<63, 61, 57>>

\* What GetTemperature returns in the loop.
ScenarioReadings ==
    {ScenarioA[n] : n \in DOMAIN ScenarioA} \cup {ScenarioB[n] : n \in DOMAIN ScenarioB}
ReadingsFor(rs) == IF rs \in DocTables THEN ScenarioReadings ELSE 0 .. (MaxTemp + 1)

----------------------------------------------------------------------------
(* The function on its own: one evaluation of getFanSpeedForTemperature.   *)

NoDevices == [d \in {} |-> 0]

\* The trace: kept while on.
TraceOff == [on |-> FALSE, seq |-> << >>]
TraceOn(seq) == [on |-> TRUE, seq |-> seq]

\* loadConfig's fallback for time_to_update (nfc.go:80), in seconds.
DefaultTimeToUpdate == 5

\* main inside runMonitoringLoop (nfc.go:223), the ticker running with the
\* fallback period, fc being the fan counts initDevices returned.
\* TimeToUpdate is in steps of 1/Resolution of a second, period in seconds.
Running(fc) ==
    [pc |-> "runMonitoringLoop", exit |-> "none",
     TimeToUpdate |-> DefaultTimeToUpdate * Resolution,
     initializedDevices |-> Cardinality({d \in DOMAIN fc : fc[d] > 0}),
     period |-> DefaultTimeToUpdate]

\* One result of a call: what the loop keeps of it at nfc.go:167.
Evaluation(temp, prevSpeed, rs) ==
    [temp |-> temp, prevSpeed |-> prevSpeed, band |-> MatchIndex(temp, rs),
     newFanSpeed |-> getFanSpeedForTemperature(temp, prevSpeed, rs)]

FnInit ==
    /\ ranges \in Tables
    /\ FanCounts = NoDevices
    /\ FanSpeeds = NoDevices
    /\ i = 0
    /\ calls = << >>
    /\ temps = NoDevices
    /\ failed = NoDevices
    /\ repeated = FALSE
    /\ call = << >>
    /\ trace = TraceOff
    /\ updatedFans = << >>
    /\ main = Running(NoDevices)
    /\ active_band = NoDevices
    /\ written = NoDevices

\* nfc.go:167, the call alone.
Evaluate ==
    /\ \E temp \in TempsFor(ranges), prevSpeed \in SpeedsFor(ranges) :
          call' = << Evaluation(temp, prevSpeed, ranges) >>
    /\ UNCHANGED <<ranges, FanCounts, FanSpeeds, i, calls, temps, failed, repeated,
                   trace, updatedFans, main, active_band, written>>

FnNext == Evaluate

FnSpec == FnInit /\ [][FnNext]_vars


----------------------------------------------------------------------------
(* The monitoring loop, runMonitoringLoop (nfc.go:145-191).                *)

\* nvml.Return values the loop tells apart.
SUCCESS == "SUCCESS"
ERROR_NOT_SUPPORTED == "ERROR_NOT_SUPPORTED"
ERROR_UNKNOWN == "ERROR_UNKNOWN"
Returns == {SUCCESS, ERROR_NOT_SUPPORTED, ERROR_UNKNOWN}

\* count, as initDevices returns it: the length of FanCounts (nfc.go:106).
count == Cardinality(DOMAIN FanCounts)
Devices == 0 .. (count - 1)
FanIdxs(d) == 0 .. (FanCounts[d] - 1)

\* One NVML call of a visit: fan and val are -1 where the call takes none.
Call(op, d, fanIdx, val, ret) ==
    [op |-> op, dev |-> d, fan |-> fanIdx, val |-> val, ret |-> ret]

\* temps[d]: nothing read yet, a read that failed (the handle lookup or the
\* temperature), or the temperature read.
NoReading == [state |-> "none", temp |-> 0]
ReadFailed == [state |-> "failed", temp |-> 0]
Reading(tempInt) == [state |-> "read", temp |-> tempInt]

\* The returns NVML gives for the two writes of one fan: <<policy, speed>>.
Outcomes ==
    { <<SUCCESS, SUCCESS>>, <<ERROR_NOT_SUPPORTED, SUCCESS>>,
      <<SUCCESS, ERROR_UNKNOWN>>, <<ERROR_NOT_SUPPORTED, ERROR_UNKNOWN>>,
      <<ERROR_UNKNOWN, ERROR_UNKNOWN>> }

\* nfc.go:169 without the second test: only SUCCESS lets the speed write go
\* ahead.
PolicyAllowsSuccessOnly(ret) == ret = SUCCESS

\* nfc.go:169: the returns of the policy write that let the speed write go ahead.
PolicyAllows(ret) == ret = SUCCESS \/ ret = ERROR_NOT_SUPPORTED

\* nfc.go:167-179 without line 178: the speed written is not recorded.
FanBodyNotRecorded(st, d, fanIdx, tempInt, out) ==
    LET cur == st.speeds[fanIdx]
        ev == Evaluation(tempInt, cur, ranges)
        polCall == Call("SetFanControlPolicy", d, fanIdx, -1, out[fanIdx][1])
        spdCall == Call("SetFanSpeed_v2", d, fanIdx, ev.newFanSpeed, out[fanIdx][2])
        st1 == [st EXCEPT !.evals = Append(@, ev)]
    IN  IF ev.newFanSpeed = cur THEN st1
        ELSE IF ~PolicyAllows(out[fanIdx][1]) THEN
            [st1 EXCEPT !.calls = Append(@, polCall), !.failed = @ \cup {fanIdx}]
        ELSE IF out[fanIdx][2] # SUCCESS THEN
            [st1 EXCEPT !.calls = @ \o <<polCall, spdCall>>,
                        !.failed = @ \cup {fanIdx}]
        ELSE
            [st1 EXCEPT !.calls = @ \o <<polCall, spdCall>>,
                        !.updatedFans = Append(@, fanIdx)]

\* nfc.go:167-179 without the test of line 168: every fan is written.
FanBodyAlwaysWrites(st, d, fanIdx, tempInt, out) ==
    LET cur == st.speeds[fanIdx]
        ev == Evaluation(tempInt, cur, ranges)
        polCall == Call("SetFanControlPolicy", d, fanIdx, -1, out[fanIdx][1])
        spdCall == Call("SetFanSpeed_v2", d, fanIdx, ev.newFanSpeed, out[fanIdx][2])
        st1 == [st EXCEPT !.evals = Append(@, ev)]
    IN  IF ~PolicyAllows(out[fanIdx][1]) THEN
            [st1 EXCEPT !.calls = Append(@, polCall), !.failed = @ \cup {fanIdx}]
        ELSE IF out[fanIdx][2] # SUCCESS THEN
            [st1 EXCEPT !.calls = @ \o <<polCall, spdCall>>,
                        !.failed = @ \cup {fanIdx}]
        ELSE
            [st1 EXCEPT !.calls = @ \o <<polCall, spdCall>>,
                        !.updatedFans = Append(@, fanIdx),
                        !.speeds = [@ EXCEPT ![fanIdx] = ev.newFanSpeed]]

\* nfc.go:167-179 with line 178 ahead of the test of line 173: the speed is
\* recorded whatever SetFanSpeed_v2 returns.
FanBodyRecordsFailedWrite(st, d, fanIdx, tempInt, out) ==
    LET cur == st.speeds[fanIdx]
        ev == Evaluation(tempInt, cur, ranges)
        polCall == Call("SetFanControlPolicy", d, fanIdx, -1, out[fanIdx][1])
        spdCall == Call("SetFanSpeed_v2", d, fanIdx, ev.newFanSpeed, out[fanIdx][2])
        st1 == [st EXCEPT !.evals = Append(@, ev)]
    IN  IF ev.newFanSpeed = cur THEN st1
        ELSE IF ~PolicyAllows(out[fanIdx][1]) THEN
            [st1 EXCEPT !.calls = Append(@, polCall), !.failed = @ \cup {fanIdx}]
        ELSE IF out[fanIdx][2] # SUCCESS THEN
            [st1 EXCEPT !.calls = @ \o <<polCall, spdCall>>,
                        !.failed = @ \cup {fanIdx},
                        !.speeds = [@ EXCEPT ![fanIdx] = ev.newFanSpeed]]
        ELSE
            [st1 EXCEPT !.calls = @ \o <<polCall, spdCall>>,
                        !.updatedFans = Append(@, fanIdx),
                        !.speeds = [@ EXCEPT ![fanIdx] = ev.newFanSpeed]]

\* nfc.go:167-179: the body of the fan loop for fanIdx. st is the state the
\* loop carries: the device's speeds, the calls made, updatedFans, the fans
\* whose write failed, and the evaluations. out[fanIdx] = <<policy, speed>>
\* are the returns NVML gives for the fan's two writes.
FanBody(st, d, fanIdx, tempInt, out) ==
    LET cur == st.speeds[fanIdx]
        ev == Evaluation(tempInt, cur, ranges)
        newFanSpeed == ev.newFanSpeed
        polCall == Call("SetFanControlPolicy", d, fanIdx, -1, out[fanIdx][1])
        spdCall == Call("SetFanSpeed_v2", d, fanIdx, newFanSpeed, out[fanIdx][2])
        st1 == [st EXCEPT !.evals = Append(@, ev)]
    IN  IF newFanSpeed = cur THEN st1
        ELSE IF ~PolicyAllows(out[fanIdx][1]) THEN
            [st1 EXCEPT !.calls = Append(@, polCall),
                        !.failed = @ \cup {fanIdx}]
        ELSE IF out[fanIdx][2] # SUCCESS THEN
            [st1 EXCEPT !.calls = @ \o <<polCall, spdCall>>,
                        !.failed = @ \cup {fanIdx}]
        ELSE
            [st1 EXCEPT !.calls = @ \o <<polCall, spdCall>>,
                        !.updatedFans = Append(@, fanIdx),
                        !.speeds = [@ EXCEPT ![fanIdx] = newFanSpeed]]

\* nfc.go:166-180 with break for the continue of lines 171 and 175: the fan
\* loop ends at the first fan whose write fails.
RECURSIVE FanLoopStopsOnFailure(_, _, _, _, _)
FanLoopStopsOnFailure(st, d, fanIdx, tempInt, out) ==
    IF fanIdx >= FanCounts[d] \/ st.failed # {} THEN st
    ELSE FanLoopStopsOnFailure(FanBody(st, d, fanIdx, tempInt, out), d, fanIdx + 1,
                               tempInt, out)

\* nfc.go:166: for fanIdx := 0; fanIdx < FanCounts[i]; fanIdx++
RECURSIVE FanLoop(_, _, _, _, _)
FanLoop(st, d, fanIdx, tempInt, out) ==
    IF fanIdx >= FanCounts[d] THEN st
    ELSE FanLoop(FanBody(st, d, fanIdx, tempInt, out), d, fanIdx + 1, tempInt, out)

\* The hardware of a device after the calls cs[k..]: a fan runs at the speed
\* of the last SetFanSpeed_v2 that returned SUCCESS (nfc.go:173).
RECURSIVE ApplyWrites(_, _, _)
ApplyWrites(hw, cs, k) ==
    IF k > Len(cs) THEN hw
    ELSE IF cs[k].op = "SetFanSpeed_v2" /\ cs[k].ret = SUCCESS
         THEN ApplyWrites([hw EXCEPT ![cs[k].fan] = cs[k].val], cs, k + 1)
         ELSE ApplyWrites(hw, cs, k + 1)

\* The band each fan of a device was last matched to at its recorded speed:
\* the band the reading of the visit resolved to (nfc.go:34-36) when the
\* fan's recorded speed after the visit is that band's fan_speed, else the
\* band it had.
NextActive(act, evals, speeds) ==
    [f \in DOMAIN act |->
        IF f + 1 > Len(evals) THEN act[f]
        ELSE LET ev == evals[f + 1]
             IN  IF ev.band # 0 /\ ranges[ev.band].FanSpeed = speeds[f]
                 THEN ev.band ELSE act[f]]

\* The trace of device 0: one entry per visit, for the first ticks (as many
\* as the longer scenario has) and as long as every call of the visit succeeds.
TraceLen == Len(ScenarioA)


NextTrace(d, entry, ok) ==
    IF ~trace.on \/ d # 0 THEN trace
    ELSE IF ~ok THEN TraceOff
    ELSE IF Len(trace.seq) < TraceLen THEN TraceOn(Append(trace.seq, entry))
    ELSE trace

\* nfc.go:149: the ticker fires and the sweep starts at device 0.
TickFire ==
    /\ i = count
    /\ i' = 0
    /\ calls' = << >>
    /\ call' = << >>
    /\ repeated' = FALSE
    /\ updatedFans' = << >>
    /\ UNCHANGED <<ranges, FanCounts, FanSpeeds, temps, failed, trace, main,
                   active_band, written>>

\* nfc.go:151-153
SkipNoFans ==
    /\ i < count
    /\ FanCounts[i] = 0
    /\ i' = i + 1
    /\ calls' = << >>
    /\ call' = << >>
    /\ repeated' = FALSE
    /\ updatedFans' = << >>
    /\ UNCHANGED <<ranges, FanCounts, FanSpeeds, temps, failed, trace, main,
                   active_band, written>>

\* nfc.go:154-158 with break for continue: the sweep ends at the device.
HandleFailsBreaks ==
    /\ i < count
    /\ FanCounts[i] # 0
    /\ \E ret \in Returns \ {SUCCESS} :
          calls' = << Call("GetHandleByIndex", i, -1, -1, ret) >>
    /\ i' = count
    /\ call' = << >>
    /\ temps' = [temps EXCEPT ![i] = ReadFailed]
    /\ repeated' = FALSE
    /\ failed' = [failed EXCEPT ![i] = {}]
    /\ trace' = NextTrace(i, << >>, FALSE)
    /\ updatedFans' = << >>
    /\ UNCHANGED <<ranges, FanCounts, FanSpeeds, main, active_band, written>>

\* nfc.go:154-158
HandleFails ==
    /\ i < count
    /\ FanCounts[i] # 0
    /\ \E ret \in Returns \ {SUCCESS} :
          calls' = << Call("GetHandleByIndex", i, -1, -1, ret) >>
    /\ i' = i + 1
    /\ call' = << >>
    /\ temps' = [temps EXCEPT ![i] = ReadFailed]
    /\ repeated' = FALSE
    /\ failed' = [failed EXCEPT ![i] = {}]
    /\ trace' = NextTrace(i, << >>, FALSE)
    /\ updatedFans' = << >>
    /\ UNCHANGED <<ranges, FanCounts, FanSpeeds, main, active_band, written>>

\* nfc.go:159-163
TemperatureFails ==
    /\ i < count
    /\ FanCounts[i] # 0
    /\ \E ret \in Returns \ {SUCCESS} :
          calls' = << Call("GetHandleByIndex", i, -1, -1, SUCCESS),
                      Call("GetTemperature", i, -1, -1, ret) >>
    /\ i' = i + 1
    /\ call' = << >>
    /\ temps' = [temps EXCEPT ![i] = ReadFailed]
    /\ repeated' = FALSE
    /\ failed' = [failed EXCEPT ![i] = {}]
    /\ trace' = NextTrace(i, << >>, FALSE)
    /\ updatedFans' = << >>
    /\ UNCHANGED <<ranges, FanCounts, FanSpeeds, main, active_band, written>>

\* nfc.go:167-168: the fans of device d the reading gives a new speed, the
\* ones NVML is called for and gives returns for.
Rewritten(d, tempInt) ==
    {f \in FanIdxs(d) :
        getFanSpeedForTemperature(tempInt, FanSpeeds[d][f], ranges) # FanSpeeds[d][f]}

\* nfc.go:154-188 with both reads succeeding: the fan loop.
UpdateFans ==
    /\ i < count
    /\ FanCounts[i] # 0
    /\ \E tempInt \in ReadingsFor(ranges) :
       \E ret \in [Rewritten(i, tempInt) -> Outcomes] :
          LET out == [f \in FanIdxs(i) |->
                        IF f \in DOMAIN ret THEN ret[f] ELSE <<SUCCESS, SUCCESS>>]
              st0 == [speeds |-> FanSpeeds[i],
                      calls |-> << Call("GetHandleByIndex", i, -1, -1, SUCCESS),
                                   Call("GetTemperature", i, -1, tempInt, SUCCESS) >>,
                      updatedFans |-> << >>, failed |-> {}, evals |-> << >>]
          IN  \E st \in {FanLoop(st0, i, 0, tempInt, out)} :
              /\ FanSpeeds' = [FanSpeeds EXCEPT ![i] = st.speeds]
              /\ calls' = st.calls
              /\ call' = st.evals
              /\ failed' = [failed EXCEPT ![i] = st.failed]
              /\ temps' = [temps EXCEPT ![i] = Reading(tempInt)]
              /\ repeated' = (temps[i] = Reading(tempInt))
              /\ trace' = NextTrace(i, [temp |-> tempInt, speeds |-> st.speeds],
                                    st.failed = {})
              /\ updatedFans' = st.updatedFans
              /\ active_band' = [active_band EXCEPT ![i] =
                                    NextActive(@, st.evals, st.speeds)]
              /\ written' = [written EXCEPT ![i] = ApplyWrites(@, st.calls, 1)]
    /\ i' = i + 1
    /\ UNCHANGED <<ranges, FanCounts, main>>

Next == TickFire \/ SkipNoFans \/ HandleFails \/ TemperatureFails \/ UpdateFans

\* The tables the loop is run with.
LoopTables ==
    { << TemperatureRange(0, 2, 0, 0), TemperatureRange(2, 3, 1, 1) >>,
      << TemperatureRange(0, 1, 0, 0), TemperatureRange(1, 2, 1, 1),
         TemperatureRange(2, 3, 2, 1) >>,
      << TemperatureRange(0, 2, 1, 0), TemperatureRange(1, 3, 2, 1) >>,
      << TemperatureRange(1, 2, 1, 1), TemperatureRange(3, 4, 2, 2) >>,
      << TemperatureRange(0, 1, 1, 0), TemperatureRange(1, 2, 2, 1),
         TemperatureRange(2, 4, 1, 1) >>,
      << TemperatureRange(2, 4, 2, 0), TemperatureRange(0, 2, 0, 1) >>,
      << TemperatureRange(0, 1, 0, 0), TemperatureRange(1, 2, 1, 1),
         TemperatureRange(2, 4, 1, 0) >> }

\* The state runMonitoringLoop starts in: what initDevices (nfc.go:97-143)
\* returned, main (nfc.go:212-222) having found a device with fans.
DevicesInit(fc, fs) ==
    /\ FanCounts = fc
    /\ FanSpeeds = fs
    /\ i = count
    /\ calls = << >>
    /\ call = << >>
    /\ temps = [d \in DOMAIN fc |-> NoReading]
    /\ repeated = FALSE
    /\ failed = [d \in DOMAIN fc |-> {}]
    /\ updatedFans = << >>
    /\ main = Running(fc)
    /\ active_band = [d \in DOMAIN fc |-> [f \in DOMAIN fs[d] |-> 0]]
    /\ written = fs

\* Scenarios A and B: one fan at speed 0, and a device without fans.
ScenarioInit ==
    /\ ranges = ScenarioTable
    /\ DevicesInit([d \in {0, 1} |-> IF d = 0 THEN 1 ELSE 0],
                   [d \in {0, 1} |-> IF d = 0 THEN [f \in {0} |-> 0] ELSE NoDevices])
    /\ trace = TraceOn(<< >>)

ScenarioSpec == ScenarioInit /\ [][Next]_vars

\* What initDevices can return for two devices: FanCounts, and a speed read
\* for every fan (nfc.go:120-135). One device with MaxFans fans beside one
\* without fans, or two devices with one fan each.
FanCountsOf(n, m) == [d \in {0, 1} |-> IF d = 0 THEN n ELSE m]

DeviceConfigs == { FanCountsOf(MaxFans, 0), FanCountsOf(1, 1) }

Init ==
    /\ ranges \in LoopTables
    /\ \E fc \in DeviceConfigs :
          \E fs \in [{0, 1} -> UNION {[0 .. (n - 1) -> SpeedsFor(ranges)] : n \in 0 .. MaxFans}] :
             /\ \A d \in {0, 1} : DOMAIN fs[d] = 0 .. (fc[d] - 1)
             /\ DevicesInit(fc, fs)
    /\ trace = TraceOff

Spec == Init /\ [][Next]_vars


----------------------------------------------------------------------------
(* Startup: main (nfc.go:193-225) up to the first wait on the ticker.      *)

\* log.Fatalf (nfc.go:196, 201, 205, 210).
Fatal(m) == [m EXCEPT !.pc = "exited", !.exit = "fatal"]

\* time_to_update as config.json gives it, in steps of 1/Resolution seconds:
\* negative, absent or 0, fractions, whole numbers.
TimeValues == (0 - Resolution) .. (MaxSeconds * Resolution)

\* time.Duration(x) of a float64 (nfc.go:147): the fraction is dropped.
Truncate(n) == IF n >= 0 THEN n \div Resolution ELSE 0 - ((0 - n) \div Resolution)

\* What the two speed queries of one fan return at startup (nfc.go:124-126).
FanReads ==
    { [ret |-> SUCCESS, speed |-> sp, retLegacy |-> SUCCESS, speedLegacy |-> 0] :
         sp \in SmallSpeeds }
    \cup { [ret |-> ERROR_UNKNOWN, speed |-> 0, retLegacy |-> SUCCESS,
            speedLegacy |-> sp] : sp \in SmallSpeeds }
    \cup { [ret |-> ERROR_UNKNOWN, speed |-> 0, retLegacy |-> ERROR_UNKNOWN,
            speedLegacy |-> 0] }

\* nfc.go:124-134: the speed recorded for fanIdx.
InitialSpeed(fanIdx, r) ==
    IF r.ret = SUCCESS THEN r.speed
    ELSE IF r.retLegacy = SUCCESS /\ fanIdx = 0 THEN r.speedLegacy
    ELSE 0

StartupInit ==
    /\ ranges = << >>
    /\ FanCounts = NoDevices
    /\ FanSpeeds = NoDevices
    /\ i = 0
    /\ calls = << >>
    /\ temps = NoDevices
    /\ failed = NoDevices
    /\ repeated = FALSE
    /\ call = << >>
    /\ trace = TraceOff
    /\ updatedFans = << >>
    /\ main = [pc |-> "setupLogging", exit |-> "none", TimeToUpdate |-> 0,
               initializedDevices |-> 0, period |-> 0]
    /\ active_band = NoDevices
    /\ written = NoDevices

\* nfc.go:194-198
SetupLogging ==
    /\ main.pc = "setupLogging"
    /\ \E ok \in BOOLEAN :
          main' = IF ok THEN [main EXCEPT !.pc = "loadConfig"] ELSE Fatal(main)
    /\ UNCHANGED <<ranges, FanCounts, FanSpeeds, i, calls, temps, failed, repeated,
                   call, trace, updatedFans, active_band, written>>

\* nfc.go:71-84 and 199-202: the file is not read, or read and not parsed,
\* or parsed; a time_to_update <= 0 is replaced by 5 seconds.
LoadConfig ==
    /\ main.pc = "loadConfig"
    /\ \/ /\ main' = Fatal(main)
          /\ ranges' = ranges
       \/ \E t \in TimeValues, rs \in DocTables, parsed \in BOOLEAN :
             LET TimeToUpdate == IF t <= 0 THEN DefaultTimeToUpdate * Resolution ELSE t
                 m == [main EXCEPT !.TimeToUpdate = TimeToUpdate]
             IN  /\ main' = IF parsed THEN [m EXCEPT !.pc = "initNVML"] ELSE Fatal(m)
                 /\ ranges' = rs
    /\ UNCHANGED <<FanCounts, FanSpeeds, i, calls, temps, failed, repeated,
                   call, trace, updatedFans, active_band, written>>

\* nfc.go:86-95 and 203-206
InitNVML ==
    /\ main.pc = "initNVML"
    /\ \E ret \in {SUCCESS, ERROR_UNKNOWN} :
          main' = IF ret = SUCCESS THEN [main EXCEPT !.pc = "initDevices"]
                  ELSE Fatal(main)
    /\ UNCHANGED <<ranges, FanCounts, FanSpeeds, i, calls, temps, failed, repeated,
                   call, trace, updatedFans, active_band, written>>

\* nfc.go:98-108: the device count; an error when the query fails or there
\* is no device (fatal in main, nfc.go:209-211).
DeviceGetCount ==
    /\ main.pc = "initDevices"
    /\ \E ret \in {SUCCESS, ERROR_UNKNOWN}, n \in 0 .. MaxDevices :
          IF ret # SUCCESS \/ n = 0
          THEN /\ main' = Fatal(main)
               /\ UNCHANGED <<FanCounts, FanSpeeds>>
          ELSE /\ main' = [main EXCEPT !.pc = "initDevices.loop"]
               /\ FanCounts' = [d \in 0 .. (n - 1) |-> 0]
               /\ FanSpeeds' = [d \in 0 .. (n - 1) |-> NoDevices]
    /\ i' = 0
    /\ UNCHANGED <<ranges, calls, temps, failed, repeated, call, trace,
                   updatedFans, active_band, written>>

\* nfc.go:109-138: one turn of the loop over the devices.
InitDevice ==
    /\ main.pc = "initDevices.loop"
    /\ i < count
    /\ \/ \* nfc.go:110-114: no handle; nfc.go:115-119: no fans
          /\ UNCHANGED <<FanCounts, FanSpeeds, main>>
       \/ \E numFans \in 1 .. MaxFans :
          \E reads \in [0 .. (numFans - 1) -> FanReads] :
             /\ FanCounts' = [FanCounts EXCEPT ![i] = numFans]
             /\ FanSpeeds' = [FanSpeeds EXCEPT ![i] =
                                 [f \in 0 .. (numFans - 1) |-> InitialSpeed(f, reads[f])]]
             /\ main' = [main EXCEPT !.initializedDevices = @ + 1]
    /\ i' = i + 1
    /\ UNCHANGED <<ranges, calls, temps, failed, repeated, call, trace,
                   updatedFans, active_band, written>>

\* nfc.go:213-218
hasControllableFans == \E d \in Devices : FanCounts[d] > 0

\* nfc.go:139-142 and 208-223: initDevices returns, with an error when no
\* device was initialized; main aborts on the error, returns when no device
\* has fans, and calls runMonitoringLoop otherwise.
InitDevicesReturn ==
    /\ main.pc = "initDevices.loop"
    /\ i = count
    /\ main' = IF main.initializedDevices = 0 /\ count > 0
               THEN Fatal(main)
               ELSE IF ~hasControllableFans
               THEN [main EXCEPT !.pc = "exited", !.exit = "clean"]
               ELSE [main EXCEPT !.pc = "runMonitoringLoop.NewTicker"]
    /\ UNCHANGED <<ranges, FanCounts, FanSpeeds, i, calls, temps, failed, repeated,
                   call, trace, updatedFans, active_band, written>>

\* nfc.go:146-148: the ticker is made with time.Duration(TimeToUpdate) *
\* time.Second, counted here in seconds; time.NewTicker panics on a period
\* that is not positive. The loop then waits on ticker.C.
NewTicker ==
    /\ main.pc = "runMonitoringLoop.NewTicker"
    /\ LET period == Truncate(main.TimeToUpdate)
       IN  main' = IF period <= 0
                   THEN [main EXCEPT !.pc = "exited", !.exit = "panic",
                                     !.period = period]
                   ELSE [main EXCEPT !.pc = "runMonitoringLoop", !.period = period]
    /\ temps' = [d \in Devices |-> NoReading]
    /\ failed' = [d \in Devices |-> {}]
    /\ active_band' = [d \in Devices |-> [f \in DOMAIN FanSpeeds[d] |-> 0]]
    /\ written' = FanSpeeds
    /\ UNCHANGED <<ranges, FanCounts, FanSpeeds, i, calls, repeated, call, trace,
                   updatedFans>>

StartupNext ==
    \/ SetupLogging \/ LoadConfig \/ InitNVML \/ DeviceGetCount \/ InitDevice
    \/ InitDevicesReturn \/ NewTicker

StartupSpec == StartupInit /\ [][StartupNext]_vars


----------------------------------------------------------------------------
(* Claims about getFanSpeedForTemperature, checked under FnSpec.           *)

Min(r) == r.MinTemperature
Max(r) == r.MaxTemperature

\* No two bands of the table have the same fan_speed.
DistinctSpeeds(rs) ==
    \A a, b \in 1 .. Len(rs) : rs[a].FanSpeed = rs[b].FanSpeed => a = b

\* C1: hysteresis on ramp-down. In a table of distinct fan speeds, when the
\* recorded speed is band B's and the reading resolves to a band of lower
\* speed, the lower speed is returned exactly when t <= B.min - B.hysteresis
\* and the recorded speed is kept otherwise. With the README table a fan at
\* 55 stays at 55 for 59..61 and drops exactly for t <= 58; a fan at 40
\* returns to 0 exactly for t <= 42.
C1_HysteresisOnRampDown ==
    \A n \in 1 .. Len(call) :
       LET e == call[n] IN
       /\ (DistinctSpeeds(ranges) /\ e.band # 0
             /\ ranges[e.band].FanSpeed < e.prevSpeed) =>
             \A b \in 1 .. Len(ranges) :
                ranges[b].FanSpeed = e.prevSpeed =>
                   e.newFanSpeed =
                      IF e.temp <= Min(ranges[b]) - ranges[b].Hysteresis
                      THEN ranges[e.band].FanSpeed
                      ELSE e.prevSpeed
       /\ (ranges \in DocTables /\ e.prevSpeed = 55) =>
             /\ e.temp \in {59, 60, 61} => e.newFanSpeed = 55
             /\ e.newFanSpeed < 55 <=> e.temp <= 58
       /\ (ranges = ReadmeTable /\ e.prevSpeed = 40) =>
             (e.newFanSpeed = 0 <=> e.temp <= 42)

\* C1 witness: the fan at 55 drops to 40 at the threshold 60 - 2 = 58.
C1_Witness ==
    /\ ranges = ReadmeTable
    /\ Len(call) = 1
    /\ call[1].prevSpeed = 55 /\ call[1].temp = 58 /\ call[1].newFanSpeed = 40

\* C2: upward transitions are never delayed. Whenever the band resolved for
\* the reading has a fan_speed above the recorded speed, the call returns
\* that band's fan_speed, whatever the hysteresis values of the table.
C2_UpwardNeverDelayed ==
    \A n \in 1 .. Len(call) :
       LET e == call[n] IN
       (e.band # 0 /\ ranges[e.band].FanSpeed > e.prevSpeed) =>
          e.newFanSpeed = ranges[e.band].FanSpeed

\* C2 witness: an upward step in a table whose bands all have a hysteresis
\* above 0.
C2_Witness ==
    /\ Len(call) = 1 /\ Len(ranges) = 2
    /\ ranges[1].Hysteresis > 0 /\ ranges[2].Hysteresis > 0
    /\ call[1].band = 2
    /\ call[1].prevSpeed = ranges[1].FanSpeed
    /\ call[1].newFanSpeed = ranges[2].FanSpeed
    /\ call[1].newFanSpeed > call[1].prevSpeed


\* C5: the README's boundary trigger. With the README table a fan at speed 0
\* is switched to Stage 2 (speed 40) as soon as the reading is exactly 50:
\* the reading 50 resolves to the band whose min_temperature is 50.
C5_BoundaryTriggerAt50 ==
    \A n \in 1 .. Len(call) :
       LET e == call[n] IN
       (ranges = ReadmeTable /\ e.prevSpeed = 0 /\ e.temp = 50) =>
          (e.band = 2 /\ e.newFanSpeed = 40)

\* An ascending table: every band holds a reading, and no band starts below
\* the end of the band before it.
Ascending(rs) ==
    /\ \A k \in 1 .. Len(rs) : Min(rs[k]) < Max(rs[k])
    /\ \A k \in 1 .. (Len(rs) - 1) : Max(rs[k]) <= Min(rs[k + 1])

\* C6: the shared-boundary rule. In an ascending table, for adjacent bands
\* with lower.max = upper.min = v, the reading v resolves to the lower band,
\* and it is the one band of the table the reading is in.
C6_SharedBoundaryIsLower ==
    \A n \in 1 .. Len(call) :
       LET e == call[n] IN
       \A k \in 1 .. (Len(ranges) - 1) :
          (Ascending(ranges) /\ Max(ranges[k]) = Min(ranges[k + 1])
              /\ e.temp = Max(ranges[k])) =>
             /\ e.band = k
             /\ {j \in 1 .. Len(ranges) : InRange(e.temp, ranges[j])} = {k}
             /\ e.prevSpeed < ranges[k].FanSpeed => e.newFanSpeed = ranges[k].FanSpeed

\* C6 witness: a reading on the boundary of two adjacent bands of different
\* speeds, resolved to the lower band.
C6_Witness ==
    /\ Len(call) = 1 /\ Len(ranges) = 2 /\ Ascending(ranges)
    /\ Max(ranges[1]) = Min(ranges[2])
    /\ ranges[1].FanSpeed = 1 /\ ranges[2].FanSpeed = 2
    /\ call[1].temp = Max(ranges[1])
    /\ call[1].prevSpeed = 0
    /\ call[1].band = 1 /\ call[1].newFanSpeed = 1

\* The last band of the table with min <= t <= max, 0 when there is none.
LastInclusiveMatch(temp, rs) ==
    LET hits == {k \in 1 .. Len(rs) : Min(rs[k]) <= temp /\ temp <= Max(rs[k])}
    IN  IF hits = {} THEN 0 ELSE CHOOSE k \in hits : \A j \in hits : j <= k

\* C7: the resolver's matching rule. The band resolved for a reading is the
\* last band in table order with min_temperature <= t <= max_temperature.
C7_LastInclusiveMatchWins ==
    \A n \in 1 .. Len(call) :
       call[n].band = LastInclusiveMatch(call[n].temp, ranges)

\* The bands of the table whose fan_speed is the speed, in table order.
BandsAt(speed, rs) == {k \in 1 .. Len(rs) : rs[k].FanSpeed = speed}
FirstOf(ks) == CHOOSE k \in ks : \A j \in ks : k <= j

\* C17: downward commit without a reference band. When the band resolved
\* for the reading has a fan_speed below the recorded speed and no band of
\* the table has the recorded speed as its fan_speed, the lower speed is
\* returned at once; when a band has the recorded speed (> 0) as its
\* fan_speed, the test t <= min_temperature - hysteresis of the first such
\* band decides, and is never bypassed.
C17_DownwardWithoutReferenceBand ==
    \A n \in 1 .. Len(call) :
       LET e == call[n]
           refs == BandsAt(e.prevSpeed, ranges)
       IN  (e.band # 0 /\ ranges[e.band].FanSpeed < e.prevSpeed) =>
              /\ refs = {} => e.newFanSpeed = ranges[e.band].FanSpeed
              /\ (refs # {} /\ e.prevSpeed > 0) =>
                    LET b == ranges[FirstOf(refs)]
                    IN  e.newFanSpeed =
                           IF e.temp <= Min(b) - b.Hysteresis
                           THEN ranges[e.band].FanSpeed
                           ELSE e.prevSpeed

\* C17 witness: a fan recorded at 30, which is no band's speed in the README
\* table, drops to 0 at a reading of 45.
C17_Witness ==
    /\ ranges = ReadmeTable /\ Len(call) = 1
    /\ call[1].prevSpeed = 30 /\ call[1].temp = 45
    /\ BandsAt(30, ranges) = {}
    /\ call[1].band = 1 /\ call[1].newFanSpeed = 0


----------------------------------------------------------------------------
(* Claims about the monitoring loop.                                       *)

\* The readings and the speeds of fan 0 in the first n entries of the trace.
TraceTemps(n) == [k \in 1 .. n |-> trace.seq[k].temp]
TraceSpeeds(n) == [k \in 1 .. n |-> trace.seq[k].speeds[0]]

\* C3: end-to-end scenario A. With the scenario table, a fan starting at
\* speed 0 and every call succeeding, the readings 49, 51, 58, 52 of four
\* successive ticks leave the recorded speeds 0, 40, 40, 40.
C3_ScenarioA ==
    (trace.on /\ Len(trace.seq) >= 4 /\ TraceTemps(4) = ScenarioA) =>
       TraceSpeeds(4) = <<0, 40, 40, 40>>

\* C3 witness: the four ticks of scenario A have run.
C3_Witness ==
    /\ trace.on /\ Len(trace.seq) = 4 /\ TraceTemps(4) = ScenarioA
    /\ FanSpeeds[0][0] = 40 /\ i = count

\* C4: end-to-end scenario B. With the same table and start, the readings
\* 63, 61, 57 of three successive ticks leave the recorded speeds 55, 55, 40.
C4_ScenarioB ==
    (trace.on /\ Len(trace.seq) >= 3 /\ TraceTemps(3) = ScenarioB) =>
       TraceSpeeds(3) = <<55, 55, 40>>

\* C4 witness: the three ticks of scenario B have run.
C4_Witness ==
    /\ trace.on /\ Len(trace.seq) = 3 /\ TraceTemps(3) = ScenarioB
    /\ FanSpeeds[0][0] = 40 /\ i = count

\* The device the sweep has just visited, and whether it has one.
Visited == i - 1
AfterVisit == i >= 1 /\ FanCounts[i - 1] # 0

\* The writes among the calls cs: all of them, and those for one fan.
IsWrite(c) == c.op \in {"SetFanControlPolicy", "SetFanSpeed_v2"}
Writes(cs) == {n \in 1 .. Len(cs) : IsWrite(cs[n])}
WritesFor(cs, fanIdx) == {n \in Writes(cs) : cs[n].fan = fanIdx}

\* C8: no-match hold. When the reading lies outside every band's range, the
\* call returns the previous speed, and the tick issues no actuation write
\* for the fan and leaves its recorded speed as it was.
C8_NoMatchHold ==
    AfterVisit =>
       \A n \in 1 .. Len(call) :
          (\A k \in 1 .. Len(ranges) :
              call[n].temp < Min(ranges[k]) \/ call[n].temp > Max(ranges[k])) =>
             /\ call[n].newFanSpeed = call[n].prevSpeed
             /\ WritesFor(calls, n - 1) = {}
             /\ FanSpeeds[Visited][n - 1] = call[n].prevSpeed

\* C8 witness: a reading above every band of the table, with a fan whose
\* recorded speed is not the speed of the nearest band.
C8_Witness ==
    /\ AfterVisit /\ Len(call) >= 1 /\ Len(ranges) >= 1
    /\ \A k \in 1 .. Len(ranges) : call[1].temp > Max(ranges[k])
    /\ \A k \in 1 .. Len(ranges) : ranges[k].FanSpeed # call[1].prevSpeed
    /\ FanSpeeds[Visited][0] = call[1].prevSpeed

\* A step that visits device d and reads its temperature.
ReadsDevice(d) == i = d /\ i' = d + 1 /\ temps'[d].state = "read"

\* C9: idempotence of ticks. In a tick whose reading equals the reading of
\* the immediately preceding tick, no actuation write is issued.
C9_NoWriteOnRepeatedReading ==
    (AfterVisit /\ repeated) => Writes(calls) = {}

\* C9 as amended: in a tick whose reading equals the reading of the
\* immediately preceding tick, no actuation write is issued for a fan
\* unless a write for that fan failed in the preceding tick.
C9_NoWriteOnRepeatedReadingUnlessFailed ==
    [][ \A d \in Devices :
           (ReadsDevice(d) /\ repeated') =>
              \A fanIdx \in FanIdxs(d) :
                 fanIdx \notin failed[d] => WritesFor(calls', fanIdx) = {} ]_vars

\* C9 witness: a repeated reading that resolves to a band, in a table of
\* several speeds: the fan already has the band's speed, nothing is written.
C9_Witness ==
    /\ AfterVisit /\ repeated /\ Writes(calls) = {}
    /\ call[1].band # 0
    /\ ranges[call[1].band].FanSpeed = FanSpeeds[Visited][0]
    /\ \E k \in 1 .. Len(ranges) : ranges[k].FanSpeed # FanSpeeds[Visited][0]


\* A visit of the device the sweep is at.
Visit == SkipNoFans \/ HandleFails \/ TemperatureFails \/ UpdateFans

\* C10: a failed read is absorbed per device. When the handle lookup or the
\* temperature read of device d fails, the tick issues no fan-policy or
\* fan-speed write for d and leaves FanSpeeds[d] unchanged, the sweep goes on
\* to the next device, and on the next tick d is looked up and read again.
C10_ReadFailureAbsorbed ==
    /\ [](AfterVisit /\ temps[Visited] = ReadFailed =>
             /\ Writes(calls) = {}
             /\ \A n \in 1 .. Len(calls) : calls[n].dev = Visited
             /\ calls[Len(calls)].ret # SUCCESS
             /\ i < count => ENABLED Visit
             /\ i = count => ENABLED TickFire)
    /\ [][ \A d \in Devices :
              /\ (i = d /\ temps'[d] = ReadFailed /\ calls' # << >>) =>
                    (FanSpeeds' = FanSpeeds /\ i' = d + 1)
              /\ (i = d /\ FanCounts[d] # 0 /\ temps[d] = ReadFailed) =>
                    /\ i' = d + 1
                    /\ calls'[1].op = "GetHandleByIndex" /\ calls'[1].dev = d ]_vars

\* C10 witness: the read of device 0 failed, and device 1 was read and
\* written in the same sweep.
C10_Witness ==
    /\ i = count /\ count = 2
    /\ temps[0] = ReadFailed
    /\ temps[1].state = "read"
    /\ Writes(calls) # {} /\ calls[1].dev = 1

\* The fans of the calls cs for which a write failed: a policy write that
\* returned neither SUCCESS nor ERROR_NOT_SUPPORTED, or a speed write that did
\* not return SUCCESS.
WriteFailed(c) ==
    \/ c.op = "SetFanControlPolicy" /\ c.ret \notin {SUCCESS, ERROR_NOT_SUPPORTED}
    \/ c.op = "SetFanSpeed_v2" /\ c.ret # SUCCESS
FailedFans(cs) == {cs[n].fan : n \in {m \in Writes(cs) : WriteFailed(cs[m])}}

\* The fans listed in updatedFans.
Listed == {updatedFans[n] : n \in 1 .. Len(updatedFans)}

\* The visit read the temperature of the device.
AfterRead == AfterVisit /\ temps[Visited].state = "read"

\* C11: actuation failure never updates recorded state. When the policy
\* write of a fan fails with anything but success or not-supported, or its
\* speed write fails, the fan's recorded speed keeps its previous value, the
\* fan is not listed in the summary log of the tick, and the other fans of
\* the device are still processed: each is evaluated, and written when its
\* speed changes.
C11_FailedWriteNotRecorded ==
    AfterRead =>
       /\ Len(call) = FanCounts[Visited]
       /\ \A f \in FailedFans(calls) :
             /\ FanSpeeds[Visited][f] = call[f + 1].prevSpeed
             /\ f \notin Listed
             /\ \A g \in FanIdxs(Visited) \ {f} :
                   call[g + 1].newFanSpeed # call[g + 1].prevSpeed =>
                      WritesFor(calls, g) # {}

\* C11 witness: the speed write of fan 0 failed and fan 1, processed after
\* it, was written and is the one fan of the summary log.
C11_Witness ==
    /\ AfterRead /\ FanCounts[Visited] = 2
    /\ FailedFans(calls) = {0}
    /\ \E n \in WritesFor(calls, 0) : calls[n].op = "SetFanSpeed_v2"
    /\ updatedFans = <<1>>
    /\ FanSpeeds[Visited][0] # call[1].newFanSpeed
    /\ FanSpeeds[Visited][1] = call[2].newFanSpeed

\* C12: fault isolation. No failure of a collaborator call ends the loop or
\* keeps the sweep from the other devices: the sweep always goes on to the
\* next device and the next tick, and every device with fans can be read and
\* have its fans evaluated whatever failed before; a device whose handle
\* lookup and temperature read succeed has every one of its fans evaluated
\* with the reading.
C12_FaultIsolation ==
    /\ [](AfterRead =>
             /\ Len(call) = FanCounts[Visited]
             /\ \A n \in 1 .. Len(call) : call[n].temp = temps[Visited].temp)
    /\ [](/\ i = count => ENABLED TickFire
          /\ (i < count /\ FanCounts[i] # 0) => ENABLED UpdateFans
          /\ (i < count /\ FanCounts[i] = 0) => ENABLED SkipNoFans)
    /\ [][ /\ i < count => i' = i + 1
           /\ i = count => i' = 0 ]_vars

\* C12 witness: a write failed on device 0, and device 1, visited after it
\* in the sweep, was read and its fan evaluated and written.
C12_Witness ==
    /\ i = count /\ count = 2 /\ FanCounts[1] = 1
    /\ failed[0] # {}
    /\ AfterRead /\ Len(call) = 1 /\ updatedFans = <<0>>

\* C16: actuation ordering. Every fan-speed write is immediately preceded,
\* in the same tick, by a policy write for the same fan that returned success
\* or not-supported; a policy write that returned success or not-supported
\* is followed by the speed write of the fan, and any other policy return
\* is not.
C16_PolicyBeforeSpeed ==
    \A n \in 1 .. Len(calls) :
       /\ calls[n].op = "SetFanSpeed_v2" =>
             /\ n > 1
             /\ calls[n - 1].op = "SetFanControlPolicy"
             /\ calls[n - 1].dev = calls[n].dev /\ calls[n - 1].fan = calls[n].fan
             /\ calls[n - 1].ret \in {SUCCESS, ERROR_NOT_SUPPORTED}
       /\ calls[n].op = "SetFanControlPolicy" =>
             (calls[n].ret \in {SUCCESS, ERROR_NOT_SUPPORTED} <=>
                /\ n < Len(calls)
                /\ calls[n + 1].op = "SetFanSpeed_v2"
                /\ calls[n + 1].fan = calls[n].fan)

\* C16 witness: in one visit the policy write of fan 0 returned not-supported
\* and its speed write followed, and the policy write of fan 1 failed and no
\* speed write followed.
C16_Witness ==
    /\ AfterRead /\ Len(calls) = 5
    /\ calls[3].op = "SetFanControlPolicy" /\ calls[3].fan = 0
    /\ calls[3].ret = ERROR_NOT_SUPPORTED
    /\ calls[4].op = "SetFanSpeed_v2" /\ calls[4].fan = 0 /\ calls[4].ret = SUCCESS
    /\ calls[5].op = "SetFanControlPolicy" /\ calls[5].fan = 1
    /\ calls[5].ret = ERROR_UNKNOWN

\* C14: hysteresis is anchored to the active band. When the reading resolves
\* to a band of lower speed than the fan's recorded speed, the threshold
\* min_temperature - hysteresis is that of the band most recently matched by
\* a reading of the fan at its speed, also in tables where bands share a
\* fan_speed: the lower speed is returned exactly when the reading is at or
\* below that threshold.
C14_AnchoredToActiveBand ==
    [][ \A d \in Devices :
           ReadsDevice(d) =>
              \A f \in FanIdxs(d) :
                 LET e == call'[f + 1]
                     a == active_band[d][f]
                 IN  (a # 0 /\ e.band # 0 /\ ranges[e.band].FanSpeed < e.prevSpeed) =>
                        e.newFanSpeed =
                           IF e.temp <= Min(ranges[a]) - ranges[a].Hysteresis
                           THEN ranges[e.band].FanSpeed
                           ELSE e.prevSpeed ]_vars

\* C15: fans of a device move in lockstep. In a tick one target is resolved
\* for the device, a tick that writes one fan writes every fan to that
\* target, and after a visit in which no call failed all fans of the device
\* have the same recorded speed.
C15_Lockstep ==
    AfterRead =>
       /\ \A n, m \in 1 .. Len(call) : call[n].newFanSpeed = call[m].newFanSpeed
       /\ Writes(calls) # {} =>
             \A f \in FanIdxs(Visited) :
                \E n \in WritesFor(calls, f) :
                   calls[n].op = "SetFanSpeed_v2" /\ calls[n].val = call[1].newFanSpeed
       /\ FailedFans(calls) = {} =>
             \A f, g \in FanIdxs(Visited) :
                FanSpeeds[Visited][f] = FanSpeeds[Visited][g]

\* C18: never under-cooling. When the reading resolves to a band, the speed
\* returned is that band's fan_speed or a higher speed that is held, so it
\* is at least the band's fan_speed; and after a visit the recorded speed
\* of every fan whose writes did not fail is at least the fan_speed of the
\* band of the reading.
C18_NeverUnderCooling ==
    AfterRead =>
       \A f \in FanIdxs(Visited) :
          LET e == call[f + 1] IN
          e.band # 0 =>
             /\ e.newFanSpeed >= ranges[e.band].FanSpeed
             /\ \/ e.newFanSpeed = ranges[e.band].FanSpeed
                \/ e.newFanSpeed = e.prevSpeed /\ e.prevSpeed > ranges[e.band].FanSpeed
             /\ f \notin FailedFans(calls) =>
                   FanSpeeds[Visited][f] >= ranges[e.band].FanSpeed

\* C18 witness: one fan is raised to the speed of the band of the reading
\* and the other holds a speed above it.
C18_Witness ==
    /\ AfterRead /\ FailedFans(calls) = {} /\ Len(call) = 2
    /\ call[1].band # 0
    /\ call[1].prevSpeed < ranges[call[1].band].FanSpeed
    /\ FanSpeeds[Visited][0] = ranges[call[1].band].FanSpeed
    /\ call[2].prevSpeed > ranges[call[1].band].FanSpeed
    /\ FanSpeeds[Visited][1] = call[2].prevSpeed

\* The fan speeds of the table.
BandSpeeds == {ranges[k].FanSpeed : k \in 1 .. Len(ranges)}

\* C19: the recorded speed tracks the hardware. In every state of the loop
\* FanSpeeds[d][f] is the value of the last fan-speed write of the fan that
\* succeeded, or the speed recorded at startup when none has; a recorded
\* speed only ever changes to the fan_speed of a band; and a device with
\* FanCounts[d] = 0 is passed without any call.
C19_RecordedTracksHardware ==
    /\ [](/\ FanSpeeds = written
          /\ \A n \in 1 .. Len(calls) : FanCounts[calls[n].dev] # 0)
    /\ [][ /\ \A d \in Devices : \A f \in FanIdxs(d) :
                 FanSpeeds'[d][f] # FanSpeeds[d][f] => FanSpeeds'[d][f] \in BandSpeeds
           /\ (i < count /\ FanCounts[i] = 0) =>
                 (calls' = << >> /\ FanSpeeds' = FanSpeeds) ]_vars

\* C19 witness: in a sweep the speed write of device 0 succeeded and its
\* value is the recorded speed, and device 1, without fans, was passed
\* without a call.
C19_Witness ==
    /\ i = count /\ count = 2 /\ FanCounts[1] = 0 /\ calls = << >>
    /\ temps[0].state = "read" /\ failed[0] = {}
    /\ \E f \in FanIdxs(0) :
          /\ active_band[0][f] # 0
          /\ written[0][f] = ranges[active_band[0][f]].FanSpeed
          /\ FanSpeeds[0][f] = written[0][f]
          /\ \E g \in FanIdxs(0) : FanSpeeds[0][g] # FanSpeeds[0][f]

----------------------------------------------------------------------------
(* Claims about startup, checked under StartupSpec.                        *)

\* Every enumerated device was skipped by initDevices.
AllDevicesSkipped ==
    /\ count > 0
    /\ \A d \in Devices : FanCounts[d] = 0

\* C13: startup with no controllable fans. When devices are enumerated and
\* every one of them is skipped, main exits cleanly, by a normal return
\* after the informational message and not by a fatal abort, and the
\* monitoring loop is not entered.
C13_CleanExitWithoutFans ==
    (main.pc = "exited" /\ AllDevicesSkipped) => main.exit = "clean"

\* C20: positive tick period. For every time_to_update that loadConfig
\* accepts or substitutes, the period the ticker of runMonitoringLoop is made
\* with is strictly positive and the loop starts, also for a fraction of a
\* second.
C20_PositiveTickPeriod ==
    /\ main.pc = "runMonitoringLoop" => main.period > 0
    /\ main.exit # "panic"

====
